---- MODULE Spec2Model ----
(***************************************************************************)
(* The task board back end: the task routes (routes/tasks.js), the auth    *)
(* routes (routes/auth.js) and the stores they share.  Every request is a  *)
(* handler that runs from one await to the next; a step of the model is    *)
(* one store operation together with the synchronous code that follows it. *)
(***************************************************************************)
EXTENDS Integers, Sequences, FiniteSets, TLC

\* ------------------------------------------------------------------ bounds
MaxTasks == 2
MaxTime == 2
MaxSlots == 2
MaxRequests == 2
MaxFaults == 1
MaxRefresh == 1
MaxAuth == 3

\* --------------------------------------------------------------- constants
NoVal == "<undefined>"
NoTime == -1
NoUser == 0

StatusEnum == {"Todo", "In Progress", "Done"}
PriorityEnum == {"Low", "Medium", "High"}

Emails == {"a@x.com", "b@x.com"}
TaskIds == 1..MaxTasks
Slots == 1..MaxSlots

\* JavaScript truthiness of a string-valued field: undefined and "" are falsy.
Truthy(v) == v # NoVal /\ v # ""

\* JavaScript truthiness of a numeric field: undefined and 0 are falsy.
TruthyNum(n) == n # NoTime /\ n # 0

\* ------------------------------------------------------------------- state
VARIABLES
  tasks,      \* the Task collection: stored id -> document
  users,      \* the User collection, in natural (insertion) order
  log,        \* the Log collection, in insertion order
  emitted,    \* what io.emit has broadcast, in order
  now,        \* the reading Date.now() returns
  req,        \* the handlers in flight, one per slot
  started,    \* requests accepted so far
  nextId,     \* the id the next created task gets
  faults,     \* store operations that have failed so far
  listed,     \* the body of the latest GET /api/tasks response
  refresh,    \* the clientTaskUpdate resync in flight
  deleted,    \* the deletes applied: the id, the write's number, the request (history)
  ver,        \* number of writes the Task collection has applied (history)
  writer,     \* task id -> the request whose write it last took (history)
  auth        \* the register/login handlers in flight

vars == <<tasks, users, log, emitted, now, req, started, nextId, faults,
          listed, refresh, deleted, ver, writer, auth>>

\* ------------------------------------------------------------ data shapes
NoBody == [title |-> NoVal, status |-> NoVal, priority |-> NoVal,
           assignedUser |-> NoUser, lastModified |-> NoTime]

NoLog == [user |-> NoVal, verb |-> NoVal, title |-> NoVal, to |-> NoVal, req |-> 0]

NoSnap == [ok |-> FALSE, Todo |-> <<>>, InProgress |-> <<>>, Done |-> <<>>, ver |-> 0]

IdleReq == [no |-> 0, kind |-> "none", pc |-> "idle", caller |-> NoVal, id |-> 0,
            body |-> NoBody, lastFetched |-> NoTime, seen |-> NoTime,
            nowv |-> NoTime, us |-> <<>>, cnt |-> <<>>, sel |-> 0,
            entry |-> NoLog, snap |-> NoSnap, resp |-> 0, wver |-> 0,
            before |-> NoTime, after |-> NoTime,
            faulted |-> FALSE, present |-> FALSE, quiet |-> TRUE, minSeen |-> {}, least |-> {}]

\* ------------------------------------------------------- pure operations
EmailOf(uid) ==
  IF \E k \in 1..Len(users) : users[k].id = uid
  THEN (CHOOSE u \in {users[k] : k \in 1..Len(users)} : u.id = uid).email
  ELSE NoVal

\* A task as find().populate("assignedUser", "email").lean() returns it.
Doc(ts, i) ==
  [id |-> i, title |-> ts[i].title, status |-> ts[i].status,
   priority |-> ts[i].priority, assignedUser |-> EmailOf(ts[i].assignedUser),
   lastModified |-> ts[i].lastModified]

\* The ids Task.find() returns, in natural order.
FindIds(ts) ==
  LET Stored(i) == i \in DOMAIN ts
  IN  SelectSeq([i \in 1..MaxTasks |-> i], Stored)

\* grouped[s]: the documents whose status is the bucket's literal.
Bucket(ts, s) ==
  LET InBucket(i) == ts[i].status = s
      ids == SelectSeq(FindIds(ts), InBucket)
  IN  [k \in 1..Len(ids) |-> Doc(ts, ids[k])]

\* The grouped snapshot; a task whose status names no bucket is dropped.
Group(ts, v) ==
  [ok |-> TRUE, Todo |-> Bucket(ts, "Todo"),
   InProgress |-> Bucket(ts, "In Progress"), Done |-> Bucket(ts, "Done"),
   ver |-> v]

SnapIds(sn) ==
  {sn.Todo[k].id : k \in 1..Len(sn.Todo)}
    \cup {sn.InProgress[k].id : k \in 1..Len(sn.InProgress)}
    \cup {sn.Done[k].id : k \in 1..Len(sn.Done)}

\* The comparison with >= in place of >.
StaleOrEqual(lastFetched, lastModified) ==
  TruthyNum(lastFetched) /\ lastModified >= lastFetched

\* lastFetched && task.lastModified > new Date(lastFetched)
Stale(lastFetched, lastModified) ==
  TruthyNum(lastFetched) /\ lastModified > lastFetched

\* updates.status && !["Todo", "In Progress", "Done"].includes(updates.status)
BadStatus(s) == Truthy(s) /\ s \notin StatusEnum

\* updates.priority && !["Low", "Medium", "High"].includes(updates.priority)
BadPriority(p) == Truthy(p) /\ p \notin PriorityEnum

\* A status already moved off "Todo" is kept: the first writer wins.
ApplyPatchFirstWins(t, patch, time) ==
  [title |-> IF patch.title # NoVal THEN patch.title ELSE t.title,
   status |-> IF patch.status # NoVal /\ t.status = "Todo" THEN patch.status
              ELSE t.status,
   priority |-> IF patch.priority # NoVal THEN patch.priority ELSE t.priority,
   assignedUser |-> IF patch.assignedUser # NoUser THEN patch.assignedUser
                    ELSE t.assignedUser,
   lastModified |-> time]

\* { ...updates, lastModified: Date.now() } as findByIdAndUpdate sets it.
ApplyPatch(t, patch, time) ==
  [title |-> IF patch.title # NoVal THEN patch.title ELSE t.title,
   status |-> IF patch.status # NoVal THEN patch.status ELSE t.status,
   priority |-> IF patch.priority # NoVal THEN patch.priority ELSE t.priority,
   assignedUser |-> IF patch.assignedUser # NoUser THEN patch.assignedUser
                    ELSE t.assignedUser,
   lastModified |-> time]

\* { assignedUser: leastBusyUser._id, lastModified: Date.now() }
ApplyAssign(t, uid, time) ==
  [t EXCEPT !.assignedUser = uid, !.lastModified = time]

\* Task.countDocuments({ assignedUser: u._id, status: { $ne: "Done" } })
ActiveCount(ts, uid) ==
  Cardinality({i \in DOMAIN ts : ts[i].assignedUser = uid /\ ts[i].status # "Done"})

\* The comparison turned round: the reduce keeps the larger count.
LessFlipped(curr, min) == min.user = 0 \/ curr.count > min.count

\* curr.count < min.count, where the initial min.count is Infinity (no user yet).
Less(curr, min) == min.user = 0 \/ curr.count < min.count

\* taskCounts.reduce((min, curr) => ..., { user: null, count: Infinity }).user,
\* as the index in the users read (0: null).
RECURSIVE Reduce(_, _, _)
Reduce(cnt, k, min) ==
  IF k > Len(cnt) THEN min.user
  ELSE LET curr == [user |-> k, count |-> cnt[k]]
       IN  Reduce(cnt, k + 1, IF Less(curr, min) THEN curr ELSE min)

LeastBusy(cnt) == Reduce(cnt, 1, [user |-> 0, count |-> 0])

\* The users whose active count no other user's is below, on the store as it is.
MinUsers(ts) ==
  {k \in 1..Len(users) :
     \A j \in 1..Len(users) :
        ActiveCount(ts, users[k].id) <= ActiveCount(ts, users[j].id)}

\* ------------------------------------------------------------- the inputs
Body(t, s, p, u, m) ==
  [title |-> t, status |-> s, priority |-> p, assignedUser |-> u, lastModified |-> m]

\* Request bodies of POST /api/tasks.
CreateBodies ==
  { Body("Write spec", NoVal, "High", NoUser, NoTime),
    Body("Write spec", "Done", "Low", NoUser, NoTime),
    Body("Write spec", "", "Low", NoUser, NoTime),
    Body("Write spec", "Archived", "Low", NoUser, NoTime),
    Body("Write spec", "Todo", NoVal, NoUser, NoTime),
    Body("Write spec", "Todo", "Urgent", NoUser, NoTime),
    Body(NoVal, "Todo", "Low", NoUser, NoTime),
    Body("", "Todo", "Low", NoUser, NoTime) }

\* Request bodies of PUT /api/tasks/:id, without lastFetched.
Patches ==
  { Body(NoVal, "Done", NoVal, NoUser, NoTime),
    Body(NoVal, "", NoVal, NoUser, NoTime),
    Body(NoVal, "Archived", NoVal, NoUser, NoTime),
    Body(NoVal, NoVal, "Urgent", NoUser, NoTime),
    Body(NoVal, "In Progress", "High", NoUser, 0) }

\* Patches that finish a task or hand it to another user.
AssignPatches ==
  { Body(NoVal, "Done", NoVal, NoUser, NoTime),
    Body(NoVal, NoVal, NoVal, 3, NoTime),
    Body(NoVal, NoVal, NoVal, 1, NoTime) }

GoodPatch == Body(NoVal, "Done", NoVal, NoUser, NoTime)

BadPatch == Body(NoVal, "Archived", NoVal, NoUser, NoTime)

\* The authenticated caller of request number no: the callers alternate.
CallerOf(no) == IF no % 2 = 1 THEN "a@x.com" ELSE "b@x.com"

\* lastFetched as a client sends it: absent, 0, or a time it read the task at.
LastFetchedInputs == {NoTime} \cup (0..(MaxTime - 1))

\* ---------------------------------------------------------- the handlers
InFlight(r) == req[r].pc \notin {"idle", "done"}

\* The slot a new request takes: the first that holds no handler in flight.
FreeSlot(r) ==
  /\ ~InFlight(r)
  /\ \A s \in Slots : s < r => InFlight(s)

Accept(r) == started < MaxRequests /\ FreeSlot(r)

\* res.status(code).json(...): the handler ends.
Finish(rec, code) == [rec EXCEPT !.pc = "done", !.resp = code, !.snap = NoSnap]

\* What a write to the Task collection leaves in the in-flight smart-assigns
\* of the other slots: whether their counting was undisturbed, and which users
\* have been least busy at some moment of the call.
Witnessed(rq, w, ts) ==
  [s \in Slots |->
     IF s # w /\ rq[s].kind = "assign"
          /\ rq[s].pc \in {"a_users", "a_count", "a_select", "a_write"}
     THEN [rq[s] EXCEPT
             !.quiet = rq[s].quiet /\ (\A k \in 1..Len(rq[s].cnt) : rq[s].cnt[k] = -1)
                                   /\ rq[s].pc \in {"a_users", "a_count"},
             !.minSeen = rq[s].minSeen \cup MinUsers(ts)]
     ELSE rq[s]]

\* The log entry under the assignee's name instead of the caller's.
NewLogOfAssignee(caller, verb, title, to, no) ==
  [user |-> IF to # NoVal THEN to ELSE caller, verb |-> verb, title |-> title,
   to |-> to, req |-> no]

\* new Log({ user: req.user.email, action: ... })
NewLog(caller, verb, title, to, no) ==
  [user |-> caller, verb |-> verb, title |-> title, to |-> to, req |-> no]

\* Date.now() moves on.
Tick ==
  /\ now < MaxTime
  /\ now' = now + 1
  /\ UNCHANGED <<tasks, users, log, emitted, req, started, nextId, faults,
                 listed, refresh, deleted, ver, writer, auth>>

\* PUT /api/tasks/:id arrives; Task.findById is issued.
StartUpdate(r, caller, id, patch, lf) ==
  /\ Accept(r)
  /\ req' = [req EXCEPT ![r] = [IdleReq EXCEPT !.no = started + 1, !.kind = "update",
                                  !.pc = "u_find", !.caller = caller, !.id = id,
                                  !.body = patch, !.lastFetched = lf,
                                  !.present = id \in DOMAIN tasks]]
  /\ started' = started + 1
  /\ UNCHANGED <<tasks, users, log, emitted, now, nextId, faults, listed,
                 refresh, deleted, ver, writer, auth>>

\* Task.findById(req.params.id) is answered.
UpdateFind(r) ==
  /\ req[r].pc = "u_find"
  /\ req' = [req EXCEPT ![r] =
               IF req[r].id \in DOMAIN tasks
               THEN [req[r] EXCEPT !.pc = "u_check",
                                   !.seen = tasks[req[r].id].lastModified]
               ELSE Finish(req[r], 404)]
  /\ UNCHANGED <<tasks, users, log, emitted, now, started, nextId, faults,
                 listed, refresh, deleted, ver, writer, auth>>

\* The patch written before the checks on the task read.
UpdateCheckAfterWrite(r) ==
  LET id == req[r].id
      stored == id \in DOMAIN tasks
      ts == IF stored
            THEN [tasks EXCEPT ![id] = ApplyPatch(tasks[id], req[r].body, now)]
            ELSE tasks
      me == [req[r] EXCEPT !.nowv = now, !.wver = IF stored THEN ver + 1 ELSE 0]
  IN  /\ req[r].pc = "u_check"
      /\ tasks' = ts
      /\ ver' = IF stored THEN ver + 1 ELSE ver
      /\ writer' = IF stored THEN [writer EXCEPT ![id] = req[r].no] ELSE writer
      /\ req' = [Witnessed(req, r, ts) EXCEPT ![r] =
                   IF Stale(req[r].lastFetched, req[r].seen) THEN Finish(me, 409)
                   ELSE IF BadStatus(req[r].body.status) THEN Finish(me, 400)
                   ELSE IF BadPriority(req[r].body.priority) THEN Finish(me, 400)
                   ELSE [me EXCEPT !.pc = "u_write"]]
      /\ UNCHANGED <<users, log, emitted, now, started, nextId, faults, listed,
                     refresh, deleted, auth>>

\* The checks on the task read, then findByIdAndUpdate is issued with Date.now().
UpdateCheck(r) ==
  /\ req[r].pc = "u_check"
  /\ req' = [req EXCEPT ![r] =
               IF Stale(req[r].lastFetched, req[r].seen) THEN Finish(req[r], 409)
               ELSE IF BadStatus(req[r].body.status) THEN Finish(req[r], 400)
               ELSE IF BadPriority(req[r].body.priority) THEN Finish(req[r], 400)
               ELSE [req[r] EXCEPT !.pc = "u_write", !.nowv = now]]
  /\ UNCHANGED <<tasks, users, log, emitted, now, started, nextId, faults,
                 listed, refresh, deleted, ver, writer, auth>>

\* findByIdAndUpdate with upsert: a task that is gone is stored anew.
UpdateWriteUpsert(r) ==
  LET id == req[r].id
      old == IF id \in DOMAIN tasks THEN tasks[id]
             ELSE [NoBody EXCEPT !.title = "Write spec"]
      doc == ApplyPatch(old, req[r].body, req[r].nowv)
      ts == [i \in DOMAIN tasks \cup {id} |-> IF i = id THEN doc ELSE tasks[i]]
  IN  /\ req[r].pc = "u_write"
      /\ tasks' = ts
      /\ ver' = ver + 1
      /\ writer' = [writer EXCEPT ![id] = req[r].no]
      /\ req' = [Witnessed(req, r, ts) EXCEPT ![r] =
                   [req[r] EXCEPT !.pc = "log", !.wver = ver + 1,
                      !.before = old.lastModified, !.after = doc.lastModified,
                      !.entry = NewLog(req[r].caller, "Updated task", doc.title,
                                       NoVal, req[r].no)]]
      /\ UNCHANGED <<users, log, emitted, now, started, nextId, faults, listed,
                     refresh, deleted, auth>>

\* findByIdAndUpdate is applied; on a task that is gone it returns null and
\* updatedTask.title throws, which the catch answers with 500.
UpdateWrite(r) ==
  LET id == req[r].id
      stored == id \in DOMAIN tasks
      doc == ApplyPatch(tasks[id], req[r].body, req[r].nowv)
      ts == IF stored THEN [tasks EXCEPT ![id] = doc] ELSE tasks
      me == IF stored
            THEN [req[r] EXCEPT !.pc = "log", !.wver = ver + 1,
                    !.before = tasks[id].lastModified, !.after = doc.lastModified,
                    !.entry = NewLog(req[r].caller, "Updated task", doc.title,
                                     NoVal, req[r].no)]
            ELSE Finish(req[r], 500)
  IN  /\ req[r].pc = "u_write"
      /\ tasks' = ts
      /\ ver' = IF stored THEN ver + 1 ELSE ver
      /\ writer' = IF stored THEN [writer EXCEPT ![id] = req[r].no] ELSE writer
      /\ req' = [Witnessed(req, r, ts) EXCEPT ![r] = me]
      /\ UNCHANGED <<users, log, emitted, now, started, nextId, faults, listed,
                     refresh, deleted, auth>>

\* log.save() is applied; emitTaskUpdate issues Task.find().
LogSave(r) ==
  /\ req[r].pc = "log"
  /\ log' = Append(log, req[r].entry)
  /\ req' = [req EXCEPT ![r].pc = "e_read"]
  /\ UNCHANGED <<tasks, users, emitted, now, started, nextId, faults, listed,
                 refresh, deleted, ver, writer, auth>>

\* emitTaskUpdate: Task.find().populate().lean() is answered.
EmitRead(r) ==
  /\ req[r].pc = "e_read"
  /\ req' = [req EXCEPT ![r].pc = "e_emit", ![r].snap = Group(tasks, ver)]
  /\ UNCHANGED <<tasks, users, log, emitted, now, started, nextId, faults,
                 listed, refresh, deleted, ver, writer, auth>>

TaskUpdate(no, sn) == [type |-> "taskUpdate", req |-> no, snap |-> sn, entry |-> NoLog]

LogUpdate(no, entry) == [type |-> "logUpdate", req |-> no, snap |-> NoSnap, entry |-> entry]

\* res.status(201) for a create, res.json (200) otherwise.
SuccessCode(kind) == IF kind = "create" THEN 201 ELSE 200

\* The two emits in the other order.
EmitSendLogFirst(r) ==
  /\ req[r].pc = "e_emit"
  /\ emitted' = emitted
        \o <<LogUpdate(req[r].no, req[r].entry)>>
        \o (IF req[r].snap.ok THEN <<TaskUpdate(req[r].no, req[r].snap)>> ELSE <<>>)
  /\ req' = [req EXCEPT ![r] = Finish(req[r], SuccessCode(req[r].kind))]
  /\ UNCHANGED <<tasks, users, log, now, started, nextId, faults, listed, refresh,
                 deleted, ver, writer, auth>>

\* io.emit("taskUpdate", grouped) unless the read failed, then
\* req.io?.emit("logUpdate", log) and the response.
EmitSend(r) ==
  /\ req[r].pc = "e_emit"
  /\ emitted' = emitted
        \o (IF req[r].snap.ok THEN <<TaskUpdate(req[r].no, req[r].snap)>> ELSE <<>>)
        \o <<LogUpdate(req[r].no, req[r].entry)>>
  /\ req' = [req EXCEPT ![r] = Finish(req[r], SuccessCode(req[r].kind))]
  /\ UNCHANGED <<tasks, users, log, now, started, nextId, faults, listed,
                 refresh, deleted, ver, writer, auth>>

\* The ids a client names: those handed out so far and one that is unknown.
KnownIds == 1..(IF nextId <= MaxTasks THEN nextId ELSE MaxTasks)

\* The Task schema's defaults: no assignee, lastModified the time of creation.
SchemaDefaults(time) == [assignedUser |-> NoUser, lastModified |-> time]

\* new Task({ title, description, priority, status })
NewTask(body, time) ==
  [title |-> body.title, status |-> body.status, priority |-> body.priority,
   assignedUser |-> SchemaDefaults(time).assignedUser,
   lastModified |-> SchemaDefaults(time).lastModified]

\* const { ..., status = "Todo" } = req.body
DefaultStatus(s) == IF s = NoVal THEN "Todo" ELSE s

\* The three checks of POST /api/tasks on the body.
CreateRejects(body) ==
  \/ ~Truthy(body.title)
  \/ DefaultStatus(body.status) \notin StatusEnum
  \/ body.priority \notin PriorityEnum

\* POST /api/tasks arrives: the body is checked and task.save() is issued.
StartCreate(r, caller, body) ==
  /\ Accept(r)
  /\ nextId + Cardinality({s \in Slots : req[s].pc = "c_save"}) <= MaxTasks
  /\ req' = [req EXCEPT ![r] =
               LET me == [IdleReq EXCEPT !.no = started + 1, !.kind = "create",
                            !.caller = caller,
                            !.body = [body EXCEPT !.status = DefaultStatus(body.status)]]
               IN  IF CreateRejects(body) THEN Finish(me, 400)
                   ELSE [me EXCEPT !.pc = "c_save", !.nowv = now]]
  /\ started' = started + 1
  /\ UNCHANGED <<tasks, users, log, emitted, now, nextId, faults, listed,
                 refresh, deleted, ver, writer, auth>>

\* task.save() is applied.
CreateSave(r) ==
  LET doc == NewTask(req[r].body, req[r].nowv)
      ts == [i \in DOMAIN tasks \cup {nextId} |->
               IF i = nextId THEN doc ELSE tasks[i]]
  IN  /\ req[r].pc = "c_save"
      /\ tasks' = ts
      /\ nextId' = nextId + 1
      /\ ver' = ver + 1
      /\ writer' = [writer EXCEPT ![nextId] = req[r].no]
      /\ req' = [Witnessed(req, r, ts) EXCEPT ![r] =
                   [req[r] EXCEPT !.pc = "log", !.id = nextId, !.wver = ver + 1,
                      !.entry = NewLog(req[r].caller, "Created task", doc.title,
                                       NoVal, req[r].no)]]
      /\ UNCHANGED <<users, log, emitted, now, started, faults, listed,
                     refresh, deleted, auth>>

\* DELETE /api/tasks/:id arrives; Task.findByIdAndDelete is issued.
StartDelete(r, caller, id) ==
  /\ Accept(r)
  /\ req' = [req EXCEPT ![r] = [IdleReq EXCEPT !.no = started + 1, !.kind = "delete",
                                  !.pc = "d_del", !.caller = caller, !.id = id,
                                  !.present = id \in DOMAIN tasks]]
  /\ started' = started + 1
  /\ UNCHANGED <<tasks, users, log, emitted, now, nextId, faults, listed,
                 refresh, deleted, ver, writer, auth>>

\* findByIdAndDelete is applied: the task is removed, or null comes back (404).
DeleteApply(r) ==
  LET id == req[r].id
      stored == id \in DOMAIN tasks
      ts == IF stored THEN [i \in DOMAIN tasks \ {id} |-> tasks[i]] ELSE tasks
      me == IF stored
            THEN [req[r] EXCEPT !.pc = "log", !.wver = ver + 1,
                    !.entry = NewLog(req[r].caller, "Deleted task", tasks[id].title,
                                     NoVal, req[r].no)]
            ELSE Finish(req[r], 404)
  IN  /\ req[r].pc = "d_del"
      /\ tasks' = ts
      /\ deleted' = IF stored
                    THEN deleted \cup {[id |-> id, ver |-> ver + 1, req |-> req[r].no]}
                    ELSE deleted
      /\ ver' = IF stored THEN ver + 1 ELSE ver
      /\ writer' = IF stored THEN [writer EXCEPT ![id] = req[r].no] ELSE writer
      /\ req' = [Witnessed(req, r, ts) EXCEPT ![r] = me]
      /\ UNCHANGED <<users, log, emitted, now, started, nextId, faults, listed,
                     refresh, auth>>

\* POST /api/tasks/:id/smart-assign arrives; User.find() is issued.
StartAssign(r, caller, id) ==
  /\ Accept(r)
  /\ req' = [req EXCEPT ![r] = [IdleReq EXCEPT !.no = started + 1, !.kind = "assign",
                                  !.pc = "a_users", !.caller = caller, !.id = id,
                                  !.minSeen = MinUsers(tasks)]]
  /\ started' = started + 1
  /\ UNCHANGED <<tasks, users, log, emitted, now, nextId, faults, listed,
                 refresh, deleted, ver, writer, auth>>

\* User.find().lean() is answered; one countDocuments per user is issued.
AssignUsers(r) ==
  /\ req[r].pc = "a_users"
  /\ req' = [req EXCEPT ![r].us = users,
                        ![r].cnt = [k \in 1..Len(users) |-> -1],
                        ![r].pc = IF Len(users) = 0 THEN "a_select" ELSE "a_count"]
  /\ UNCHANGED <<tasks, users, log, emitted, now, started, nextId, faults,
                 listed, refresh, deleted, ver, writer, auth>>

\* One of the countDocuments queries is answered; they finish in any order.
AssignCount(r, k) ==
  /\ req[r].pc = "a_count"
  /\ k \in 1..Len(req[r].cnt)
  /\ req[r].cnt[k] = -1
  /\ LET cnt == [req[r].cnt EXCEPT ![k] = ActiveCount(tasks, req[r].us[k].id)]
     IN  req' = [req EXCEPT ![r].cnt = cnt,
                            ![r].pc = IF \A j \in 1..Len(cnt) : cnt[j] # -1
                                      THEN "a_select" ELSE "a_count"]
  /\ UNCHANGED <<tasks, users, log, emitted, now, started, nextId, faults,
                 listed, refresh, deleted, ver, writer, auth>>

\* Promise.all resolves: the reduce picks the user, or 404 when there is none;
\* findByIdAndUpdate is issued with Date.now().
AssignSelect(r) ==
  /\ req[r].pc = "a_select"
  /\ req' = [req EXCEPT ![r] =
               LET sel == LeastBusy(req[r].cnt)
               IN  IF sel = 0 THEN Finish(req[r], 404)
                   ELSE [req[r] EXCEPT !.pc = "a_write", !.sel = sel, !.nowv = now]]
  /\ UNCHANGED <<tasks, users, log, emitted, now, started, nextId, faults,
                 listed, refresh, deleted, ver, writer, auth>>

\* findByIdAndUpdate is applied, or returns null for a task that is gone (404).
AssignWrite(r) ==
  LET id == req[r].id
      stored == id \in DOMAIN tasks
      u == req[r].us[req[r].sel]
      doc == ApplyAssign(tasks[id], u.id, req[r].nowv)
      ts == IF stored THEN [tasks EXCEPT ![id] = doc] ELSE tasks
      me == IF stored
            THEN [req[r] EXCEPT !.pc = "log", !.wver = ver + 1,
                    !.before = tasks[id].lastModified, !.after = doc.lastModified,
                    !.least = MinUsers(tasks),
                    !.entry = NewLog(req[r].caller, "Smart assigned task", doc.title,
                                     u.email, req[r].no)]
            ELSE Finish(req[r], 404)
  IN  /\ req[r].pc = "a_write"
      /\ tasks' = ts
      /\ ver' = IF stored THEN ver + 1 ELSE ver
      /\ writer' = IF stored THEN [writer EXCEPT ![id] = req[r].no] ELSE writer
      /\ req' = [Witnessed(req, r, ts) EXCEPT ![r] = me]
      /\ UNCHANGED <<users, log, emitted, now, started, nextId, faults, listed,
                     refresh, deleted, auth>>

\* GET /api/tasks: Task.find() is answered and the grouped tasks are the body.
ListTasks ==
  /\ listed' = Group(tasks, ver)
  /\ listed' # listed
  /\ UNCHANGED <<tasks, users, log, emitted, now, req, started, nextId, faults,
                 refresh, deleted, ver, writer, auth>>

\* A client sends clientTaskUpdate; emitTaskUpdate(io) issues Task.find().
StartRefresh ==
  /\ refresh.pc = "idle"
  /\ refresh.n < MaxRefresh
  /\ refresh' = [refresh EXCEPT !.pc = "read", !.n = refresh.n + 1]
  /\ UNCHANGED <<tasks, users, log, emitted, now, req, started, nextId, faults,
                 listed, deleted, ver, writer, auth>>

RefreshRead ==
  /\ refresh.pc = "read"
  /\ refresh' = [refresh EXCEPT !.pc = "emit", !.snap = Group(tasks, ver)]
  /\ UNCHANGED <<tasks, users, log, emitted, now, req, started, nextId, faults,
                 listed, deleted, ver, writer, auth>>

RefreshEmit ==
  /\ refresh.pc = "emit"
  /\ emitted' = Append(emitted, TaskUpdate(0, refresh.snap))
  /\ refresh' = [refresh EXCEPT !.pc = "idle", !.snap = NoSnap]
  /\ UNCHANGED <<tasks, users, log, now, req, started, nextId, faults, listed,
                 deleted, ver, writer, auth>>

\* catch (err): 400 in the create route, 500 in the others.
ErrorCode(kind) == IF kind = "create" THEN 400 ELSE 500

StorePcs == {"c_save", "u_find", "u_write", "d_del", "a_users", "a_count",
             "a_write", "log", "e_read"}

\* The store operation the handler waits for fails.  Inside emitTaskUpdate the
\* error is caught and only logged; anywhere else the route's catch answers.
StoreFault(r) ==
  /\ faults < MaxFaults
  /\ req[r].pc \in StorePcs
  /\ faults' = faults + 1
  /\ req' = [req EXCEPT ![r] =
               IF req[r].pc = "e_read"
               THEN [req[r] EXCEPT !.pc = "e_emit", !.faulted = TRUE]
               ELSE Finish([req[r] EXCEPT !.faulted = TRUE], ErrorCode(req[r].kind))]
  /\ UNCHANGED <<tasks, users, log, emitted, now, started, nextId, listed,
                 refresh, deleted, ver, writer, auth>>

RefreshFault ==
  /\ faults < MaxFaults
  /\ refresh.pc = "read"
  /\ faults' = faults + 1
  /\ refresh' = [refresh EXCEPT !.pc = "idle"]
  /\ UNCHANGED <<tasks, users, log, emitted, now, req, started, nextId, listed,
                 deleted, ver, writer, auth>>

\* -------------------------------------------------------- the auth routes
AuthSlots == 1..MaxAuth
Passwords == {"pw1", "pw2"}

\* bcrypt.hash(password, 10) and bcrypt.compare(password, hash)
Hash(pw) == <<"bcrypt", pw>>

Compare(pw, h) == h = Hash(pw)

NoToken == [userId |-> NoUser, email |-> NoVal]

IdleAuth == [kind |-> "none", pc |-> "idle", email |-> NoVal, password |-> NoVal,
             resp |-> 0, token |-> NoToken, present |-> FALSE]

\* User.findOne({ email }): the first stored user with the email, as an index (0: null).
FindOne(us, email) ==
  IF \E k \in 1..Len(us) : us[k].email = email
  THEN CHOOSE k \in 1..Len(us) : us[k].email = email
                                  /\ \A j \in 1..(k - 1) : us[j].email # email
  ELSE 0

\* The unique index on User.email: a save of a second user with the email fails.
UniqueEmail(us, email) == \A k \in 1..Len(us) : us[k].email # email

\* jwt.sign({ userId: user._id, email }, ...)
Sign(uid, email) == [userId |-> uid, email |-> email]

\* POST /api/auth/register or /login arrives; User.findOne is issued.
StartAuth(a, kind, email, pw) ==
  /\ auth[a].pc = "idle"
  /\ \A b \in AuthSlots : b < a => auth[b].pc # "idle"
  /\ auth' = [auth EXCEPT ![a] = [IdleAuth EXCEPT !.kind = kind, !.pc = "find",
                                    !.email = email, !.password = pw,
                                    !.present = FindOne(users, email) # 0]]
  /\ UNCHANGED <<tasks, users, log, emitted, now, req, started, nextId, faults,
                 listed, refresh, deleted, ver, writer>>

\* register without the check on the user found.
RegisterFindNoCheck(a) ==
  /\ auth[a].kind = "register"
  /\ auth[a].pc = "find"
  /\ auth' = [auth EXCEPT ![a].pc = "save"]
  /\ UNCHANGED <<tasks, users, log, emitted, now, req, started, nextId, faults,
                 listed, refresh, deleted, ver, writer>>

\* register: findOne is answered; a user found ends it with 400, otherwise the
\* password is hashed and user.save() is issued.
RegisterFind(a) ==
  /\ auth[a].kind = "register"
  /\ auth[a].pc = "find"
  /\ auth' = [auth EXCEPT ![a] =
               IF FindOne(users, auth[a].email) # 0
               THEN [auth[a] EXCEPT !.pc = "done", !.resp = 400]
               ELSE [auth[a] EXCEPT !.pc = "save"]]
  /\ UNCHANGED <<tasks, users, log, emitted, now, req, started, nextId, faults,
                 listed, refresh, deleted, ver, writer>>

\* user.save() is applied and the token is signed (201), or the unique index
\* refuses it and the catch answers 500.
RegisterSave(a) ==
  /\ auth[a].pc = "save"
  /\ IF UniqueEmail(users, auth[a].email)
     THEN /\ users' = Append(users, [id |-> Len(users) + 1, email |-> auth[a].email,
                                     password |-> Hash(auth[a].password)])
          /\ auth' = [auth EXCEPT ![a].pc = "done", ![a].resp = 201,
                        ![a].token = Sign(Len(users) + 1, auth[a].email)]
     ELSE /\ users' = users
          /\ auth' = [auth EXCEPT ![a].pc = "done", ![a].resp = 500]
  /\ UNCHANGED <<tasks, log, emitted, now, req, started, nextId, faults,
                 listed, refresh, deleted, ver, writer>>

\* login: findOne is answered, then bcrypt.compare and the token.
Login(a) ==
  /\ auth[a].kind = "login"
  /\ auth[a].pc = "find"
  /\ auth' = [auth EXCEPT ![a] =
               LET k == FindOne(users, auth[a].email)
               IN  IF k = 0 THEN [auth[a] EXCEPT !.pc = "done", !.resp = 400]
                   ELSE IF ~Compare(auth[a].password, users[k].password)
                   THEN [auth[a] EXCEPT !.pc = "done", !.resp = 400]
                   ELSE [auth[a] EXCEPT !.pc = "done", !.resp = 200,
                           !.token = Sign(users[k].id, auth[a].email)]]
  /\ UNCHANGED <<tasks, users, log, emitted, now, req, started, nextId, faults,
                 listed, refresh, deleted, ver, writer>>

\* --------------------------------------------------- the specifications
SeedUser(n, email) == [id |-> n, email |-> email, password |-> Hash("pw1")]

SeedUsers == <<SeedUser(1, "a@x.com"), SeedUser(2, "b@x.com")>>

SeedTask(s, u) ==
  [title |-> "Write spec", status |-> s, priority |-> "Low", assignedUser |-> u,
   lastModified |-> 1]

InitRest ==
  /\ log = <<>>
  /\ emitted = <<>>
  /\ now = 1
  /\ req = [r \in Slots |-> IdleReq]
  /\ started = 0
  /\ faults = 0
  /\ listed = NoSnap
  /\ refresh = [pc |-> "idle", snap |-> NoSnap, n |-> 0]
  /\ deleted = {}
  /\ ver = 0
  /\ writer = [i \in TaskIds |-> 0]
  /\ auth = [a \in AuthSlots |-> IdleAuth]

\* The last steps every mutation shares: the log entry, the snapshot, the emits.
Publish(r) ==
  \/ LogSave(r)
  \/ EmitRead(r)
  \/ EmitSend(r)

UpdateSteps(r) ==
  \/ UpdateFind(r)
  \/ UpdateCheck(r)
  \/ UpdateWrite(r)

AssignSteps(r) ==
  \/ AssignUsers(r)
  \/ \E k \in 1..Len(users) : AssignCount(r, k)
  \/ AssignSelect(r)
  \/ AssignWrite(r)

\* The server starts on a database that is empty or holds one task, with no
\* user or two.
Init ==
  /\ tasks \in {<<>>, <<SeedTask("Todo", NoUser)>>}
  /\ nextId = Len(tasks) + 1
  /\ users \in {<<>>, SeedUsers}
  /\ InitRest

\* The four mutating routes, with store operations that may fail.
Next ==
  \E r \in Slots :
    \/ \E b \in CreateBodies : StartCreate(r, CallerOf(started + 1), b)
    \/ \E i \in KnownIds, p \in {GoodPatch, BadPatch}, lf \in {NoTime, 0} :
         StartUpdate(r, CallerOf(started + 1), i, p, lf)
    \/ \E i \in KnownIds : StartDelete(r, CallerOf(started + 1), i)
    \/ \E i \in KnownIds : StartAssign(r, CallerOf(started + 1), i)
    \/ CreateSave(r)
    \/ UpdateSteps(r)
    \/ DeleteApply(r)
    \/ AssignSteps(r)
    \/ Publish(r)
    \/ StoreFault(r)

Spec == Init /\ [][Next]_vars

\* Updates of one stored task, with the clock moving: every patch and every
\* lastFetched, a delete that may take the task away, and failing store operations.
InitUpdate ==
  /\ tasks = <<SeedTask("Todo", NoUser)>>
  /\ nextId = 2
  /\ users = SeedUsers
  /\ InitRest

NextUpdate ==
  \/ Tick
  \/ \E r \in Slots :
       \/ \E p \in Patches, lf \in LastFetchedInputs :
            StartUpdate(r, CallerOf(started + 1), 1, p, lf)
       \/ StartDelete(r, CallerOf(started + 1), 1)
       \/ UpdateSteps(r)
       \/ DeleteApply(r)
       \/ Publish(r)
       \/ StoreFault(r)

SpecUpdate == InitUpdate /\ [][NextUpdate]_vars

\* The board as clients see it: GET /api/tasks and the socket's resync beside
\* deletes, updates and smart-assigns of a stored task.
InitBoard ==
  /\ tasks = <<SeedTask("Todo", NoUser)>>
  /\ nextId = 2
  /\ users = SeedUsers
  /\ InitRest

NextBoard ==
  \/ ListTasks
  \/ StartRefresh
  \/ RefreshRead
  \/ RefreshEmit
  \/ RefreshFault
  \/ \E r \in Slots :
       \/ StartUpdate(r, CallerOf(started + 1), 1, GoodPatch, NoTime)
       \/ StartDelete(r, CallerOf(started + 1), 1)
       \/ StartAssign(r, CallerOf(started + 1), 1)
       \/ UpdateSteps(r)
       \/ DeleteApply(r)
       \/ AssignSteps(r)
       \/ Publish(r)

SpecBoard == InitBoard /\ [][NextBoard]_vars

\* Smart-assign beside updates that move tasks between three users.
SeedUsers3 == Append(SeedUsers, SeedUser(3, "c@x.com"))

InitAssign ==
  /\ tasks = <<SeedTask("Todo", 1), SeedTask("Todo", 2)>>
  /\ nextId = 3
  /\ users = SeedUsers3
  /\ InitRest

NextAssign ==
  \E r \in Slots :
    \/ \E i \in KnownIds, p \in AssignPatches :
         StartUpdate(r, CallerOf(started + 1), i, p, NoTime)
    \/ \E i \in KnownIds : StartAssign(r, CallerOf(started + 1), i)
    \/ UpdateSteps(r)
    \/ AssignSteps(r)
    \/ Publish(r)

SpecAssign == InitAssign /\ [][NextAssign]_vars

\* The auth routes on a database without users.
InitAuth ==
  /\ tasks = <<>>
  /\ nextId = 1
  /\ users = <<>>
  /\ InitRest

NextAuth ==
  \E a \in AuthSlots :
    \/ \E k \in {"register", "login"}, e \in Emails, pw \in Passwords :
         StartAuth(a, k, e, pw)
    \/ RegisterFind(a)
    \/ RegisterSave(a)
    \/ Login(a)

SpecAuth == InitAuth /\ [][NextAuth]_vars

\* ------------------------------------------------------------ the claims
Done(r) == req[r].pc = "done"

Succeeded(r) == Done(r) /\ req[r].resp \in {200, 201}

Failed(r) == Done(r) /\ req[r].resp \in {400, 404, 409, 500}

Mutation(r) == req[r].kind \in {"create", "update", "delete", "assign"}

LogsOf(no) == {k \in 1..Len(log) : log[k].req = no}

EventsOf(no, type) ==
  {k \in 1..Len(emitted) : emitted[k].req = no /\ emitted[k].type = type}

\* Each request that has answered with success has exactly one log entry, and
\* that entry names its caller.
OneLogPerSuccess ==
  \A r \in Slots :
    Succeeded(r) /\ Mutation(r) =>
      /\ Cardinality(LogsOf(req[r].no)) = 1
      /\ \A k \in LogsOf(req[r].no) : log[k].user = req[r].caller

\* C2: every create, update, delete or smart-assign that returns success has
\* appended exactly one LogEntry whose user is the caller's email, and no step
\* of any interleaving changes or removes an entry the log already holds.
C2_OneLogPerSuccess ==
  [][/\ Len(log') >= Len(log)
     /\ SubSeq(log', 1, Len(log)) = log
     /\ OneLogPerSuccess']_vars

\* Two requests of different callers have both succeeded, each with its entry.
C2_Witness ==
  \E r, s \in Slots :
    /\ Succeeded(r) /\ Succeeded(s)
    /\ req[r].caller # req[s].caller
    /\ req[r].kind = "delete"
    /\ Len(log) = 2

\* What a request that has answered with success has broadcast: n taskUpdate
\* events, read at or after its own write, then one logUpdate with its entry.
Broadcast(r, n) ==
  LET ts == EventsOf(req[r].no, "taskUpdate")
      ls == EventsOf(req[r].no, "logUpdate")
  IN  /\ Cardinality(ts) = n
      /\ Cardinality(ls) = 1
      /\ \A l \in ls :
           /\ emitted[l].entry = req[r].entry
           /\ \E k \in 1..Len(log) : log[k] = emitted[l].entry
           /\ \A t \in ts : t < l /\ emitted[t].snap.ok
                                 /\ emitted[t].snap.ver >= req[r].wver

Update(r) == req[r].kind = "update"

\* The patch names no status and no priority outside the enumerations, the
\* falsy ones aside.
PatchPasses(b) ==
  /\ b.status \in {NoVal, ""} \cup StatusEnum
  /\ b.priority \in {NoVal, ""} \cup PriorityEnum

WasDeleted(id) == \E d \in deleted : d.id = id

\* C1 as stated: an update of an existing task that carries lastFetched answers
\* 409 exactly when the lastModified it read is greater than lastFetched, and in
\* every other case its patch is applied.
C1_AsStated ==
  \A r \in Slots :
    Done(r) /\ Update(r) /\ req[r].seen # NoTime /\ req[r].lastFetched # NoTime =>
      /\ req[r].resp = 409 <=> req[r].seen > req[r].lastFetched
      /\ req[r].resp # 409 => req[r].wver > 0

\* C1, amended: an update of an existing task answers 409, leaving the task as it
\* is, exactly when lastFetched is supplied and truthy and the lastModified read
\* is strictly greater.  Otherwise a patch whose status or priority is truthy and
\* outside the enumeration is refused with 400 and nothing is written, and any
\* other patch is applied (200) unless the task was deleted after the read (500,
\* nothing written) or a store operation failed.
C1_ConflictIffStale ==
  \A r \in Slots :
    Done(r) /\ Update(r) /\ req[r].seen # NoTime =>
      LET stale == /\ req[r].lastFetched \notin {NoTime, 0}
                   /\ req[r].seen > req[r].lastFetched
      IN  /\ req[r].resp = 409 <=> stale
          /\ stale => req[r].wver = 0
          /\ ~stale /\ ~PatchPasses(req[r].body) =>
               req[r].resp = 400 /\ req[r].wver = 0
          /\ ~stale /\ PatchPasses(req[r].body) /\ ~req[r].faulted =>
               \/ req[r].resp = 200 /\ req[r].wver > 0
               \/ req[r].resp = 500 /\ req[r].wver = 0 /\ WasDeleted(req[r].id)

\* An update that read lastModified 2 with lastFetched 1 has answered 409.
C1_Witness ==
  \E r \in Slots :
    /\ Done(r) /\ Update(r) /\ req[r].resp = 409
    /\ req[r].lastFetched = 1 /\ req[r].seen = 2

\* C4 as stated: every stored task has a status and a priority of the
\* enumerations.
C4_AsStated ==
  \A i \in DOMAIN tasks :
    tasks[i].status \in StatusEnum /\ tasks[i].priority \in PriorityEnum

\* C5 as stated: a write of an update or a smart-assign leaves lastModified
\* strictly greater than it was.
C5_AsStated ==
  \A r \in Slots :
    req[r].kind \in {"update", "assign"} /\ req[r].wver > 0 =>
      req[r].after > req[r].before

\* C8: an update without lastFetched never answers 409; two such updates of one
\* task that stays stored, with patches that pass the checks and no failing store
\* operation, both answer 200; and the task holds, in every field the patch of
\* its last writer set, the value of that patch.
C8_LastWriteWins ==
  /\ \A r \in Slots :
       Update(r) /\ req[r].lastFetched = NoTime => req[r].resp # 409
  /\ \A r, s \in Slots :
       /\ r # s /\ Update(r) /\ Update(s) /\ Done(r) /\ Done(s)
       /\ req[r].id = req[s].id /\ ~WasDeleted(req[r].id)
       /\ req[r].present /\ req[s].present
       /\ req[r].lastFetched = NoTime /\ req[s].lastFetched = NoTime
       /\ PatchPasses(req[r].body) /\ PatchPasses(req[s].body)
       /\ ~req[r].faulted /\ ~req[s].faulted
       => req[r].resp = 200 /\ req[s].resp = 200
  /\ \A r \in Slots :
       /\ Update(r) /\ req[r].wver > 0
       /\ req[r].id \in DOMAIN tasks /\ writer[req[r].id] = req[r].no
       => LET t == tasks[req[r].id]
              b == req[r].body
          IN  /\ b.status # NoVal => t.status = b.status
              /\ b.priority # NoVal => t.priority = b.priority
              /\ b.title # NoVal => t.title = b.title
              /\ b.assignedUser # NoUser => t.assignedUser = b.assignedUser

\* Two updates without lastFetched have both answered 200; they set the status
\* to different values, and the request that arrived first wrote last.
C8_Witness ==
  \E r, s \in Slots :
    /\ Update(r) /\ Update(s) /\ Succeeded(r) /\ Succeeded(s)
    /\ req[r].id = req[s].id
    /\ req[r].lastFetched = NoTime /\ req[s].lastFetched = NoTime
    /\ req[r].body.status \in StatusEnum /\ req[s].body.status \in StatusEnum
    /\ req[r].body.status # req[s].body.status
    /\ req[r].no < req[s].no /\ req[r].wver > req[s].wver
    /\ writer[req[r].id] = req[r].no

Assigned(r) == req[r].kind = "assign" /\ req[r].wver > 0

AllSnaps ==
  {listed, refresh.snap} \cup {req[r].snap : r \in Slots}
    \cup {emitted[k].snap : k \in 1..Len(emitted)}

Delete(r) == req[r].kind = "delete"

\* C6: a task a delete has removed is not stored again, whatever update or
\* smart-assign of it is in flight or arrives later, and no GET /api/tasks body
\* or taskUpdate snapshot read after the delete shows it; a delete of an id that
\* is not stored answers 404 and changes nothing; a task is deleted at most
\* once, and of two deletes that both arrived while it was stored exactly one
\* answers 200 unless a third request deleted it.
C6_DeletedStaysGone ==
  /\ \A d \in deleted : d.id \notin DOMAIN tasks
  /\ \A d \in deleted, sn \in AllSnaps :
       sn.ok /\ sn.ver >= d.ver => d.id \notin SnapIds(sn)
  /\ \A i \in TaskIds : Cardinality({d \in deleted : d.id = i}) <= 1
  /\ \A r \in Slots :
       Delete(r) /\ Done(r) /\ ~req[r].faulted =>
         /\ req[r].resp \in {200, 404}
         /\ req[r].resp = 200 <=> \E d \in deleted : d.req = req[r].no
         /\ ~req[r].present => req[r].resp = 404
         /\ req[r].resp = 404 => req[r].wver = 0 /\ LogsOf(req[r].no) = {}
  /\ \A r, s \in Slots :
       /\ r # s /\ Delete(r) /\ Delete(s) /\ Done(r) /\ Done(s)
       /\ req[r].id = req[s].id /\ req[r].present /\ req[s].present
       /\ ~req[r].faulted /\ ~req[s].faulted
       => \/ (req[r].resp = 200) # (req[s].resp = 200)
          \/ \E d \in deleted : d.id = req[r].id /\ d.req \notin {req[r].no, req[s].no}

\* A delete has answered 200 while an update of the same task, which arrived
\* first, has answered 500 after it; the board listed since is empty.
C6_Witness ==
  \E r, s \in Slots :
    /\ Delete(r) /\ Succeeded(r)
    /\ Update(s) /\ Done(s) /\ req[s].resp = 500
    /\ req[s].id = req[r].id /\ req[s].no < req[r].no
    /\ listed.ok /\ listed.ver >= req[r].wver /\ SnapIds(listed) = {}

Register(a) == auth[a].kind = "register"

====
